---- MODULE Spec2Model ----
(***************************************************************************)
(* Model of the two Streamlit scripts of the PDF chatbot:                  *)
(*   WorkingCode_2909/app.py  (text questions, sidebar "OK" builds index)  *)
(*   audio_app.py             (get_chain() on every run, voice questions)  *)
(* Each script is re-executed top to bottom by Streamlit on every user     *)
(* interaction; st.session_state is the only state kept between runs.      *)
(* The LangChain objects the scripts create (CharacterTextSplitter,        *)
(* ConversationBufferMemory, ConversationalRetrievalChain) are modelled by *)
(* what the calls made in the scripts do.                                  *)
(***************************************************************************)
EXTENDS Integers, Sequences, FiniteSets, TLC

VARIABLES
    app,            \* which script Streamlit serves: "text" (app.py) or "audio" (audio_app.py)
    pc,             \* per session: position of the current script run
    question,       \* per session: value of st.text_input for the current run
    audio,          \* per session: value of audiorecorder for the current run ("" = nothing recorded)
    pdf_files,      \* per session: value of st.file_uploader at the last sidebar step
    conversation,   \* per session: st.session_state.conversation (None or a chain)
    chat_history,   \* per session: st.session_state.chat_history (None or a list of messages)
    audio_file,     \* per session: inode behind the handle returned by open("audio.wav") (0 = none)
    text,           \* per session: local variable text of audio_app.main
    outcome,        \* per session: what the current run has shown so far
    fs_path,        \* inode the name "audio.wav" is linked to in the working directory (0 = no such file)
    fs_data,        \* contents of each inode ("" = unused)
    builds,         \* per session: number of get_vector_store calls
    loads,          \* per session: number of document-processing actions: a completed sidebar
                    \* "OK" in app.py; in audio_app.py, which has no such control, the first
                    \* run of the session, which processes the fixed document
    hist_epoch,     \* per session: value of loads when chat_history was last assigned
    reruns,         \* number of script runs started so far, over all sessions
    in_text,        \* chunker: input text
    in_size,        \* chunker: chunk_size
    in_overlap,     \* chunker: chunk_overlap
    chunks,         \* chunker: result of split_text
    chunked         \* chunker: whether split_text has been applied

vars == <<app, pc, question, audio, pdf_files, conversation, chat_history,
          audio_file, text, outcome, fs_path, fs_data, builds, loads,
          hist_epoch, reruns, in_text, in_size, in_overlap, chunks, chunked>>

sessionVars == <<app, pc, question, audio, pdf_files, conversation, chat_history,
                 audio_file, text, outcome, fs_path, fs_data, builds, loads,
                 hist_epoch, reruns>>

chunkVars == <<in_text, in_size, in_overlap, chunks, chunked>>

----------------------------------------------------------------------------
(* Bounds of the model *)

MaxReruns == 4
MaxLen == 5
MaxChunkSize == 3

(* Program constants *)

chunk_size == 1000
chunk_overlap == 200

NL == "\n"
SP == " "
separator == <<NL>>

Sessions == {1, 2}
Questions == {"q1", "q2"}
Recordings == {"r1", "r2"}
Chars == {"a", "b", SP, NL}

\* Python's None and a present value, for fields that hold either
None == <<>>
Some(x) == <<x>>

----------------------------------------------------------------------------
(* get_chunk_text: CharacterTextSplitter(separator="\n", chunk_size,       *)
(* chunk_overlap, length_function=len).split_text(text)                    *)
(* Strings are sequences of one-character strings.                         *)

IsWhitespace(c) == c \in {SP, NL}

RECURSIVE lstrip(_)
lstrip(s) ==
    IF s # <<>> /\ IsWhitespace(Head(s)) THEN lstrip(Tail(s)) ELSE s

RECURSIVE rstrip(_)
rstrip(s) ==
    IF s # <<>> /\ IsWhitespace(s[Len(s)]) THEN rstrip(SubSeq(s, 1, Len(s) - 1)) ELSE s

\* str.strip()
strip(s) == rstrip(lstrip(s))

\* re.split("\n", text): the pieces between separators, empty pieces included
RECURSIVE re_split(_)
re_split(t) ==
    IF \E i \in 1..Len(t) : t[i] = NL
    THEN LET i == CHOOSE j \in 1..Len(t) : t[j] = NL /\ \A k \in 1..(j - 1) : t[k] # NL
         IN  <<SubSeq(t, 1, i - 1)>> \o re_split(SubSeq(t, i + 1, Len(t)))
    ELSE <<t>>

\* _split_text_with_regex with keep_separator=False: [s for s in splits if s != ""]
split_text_with_regex(t) == SelectSeq(re_split(t), LAMBDA s : s # <<>>)

\* separator.join(docs)
RECURSIVE join(_)
join(docs) ==
    IF docs = <<>> THEN <<>>
    ELSE IF Len(docs) = 1 THEN docs[1]
    ELSE docs[1] \o separator \o join(Tail(docs))

\* _join_docs: join, strip, and None when nothing is left (None is the empty string here,
\* which is exactly the case that yields it)
join_docs(docs) == strip(join(docs))

separator_len == Len(separator)

\* the inner while loop of _merge_splits: drop leading units of current_doc
RECURSIVE pop_loop(_, _, _, _, _)
pop_loop(current_doc, total, len_d, size, overlap) ==
    IF \/ total > overlap
       \/ /\ total + len_d + (IF Len(current_doc) > 0 THEN separator_len ELSE 0) > size
          /\ total > 0
    THEN pop_loop(Tail(current_doc),
                  total - (Len(current_doc[1]) + (IF Len(current_doc) > 1 THEN separator_len ELSE 0)),
                  len_d, size, overlap)
    ELSE [current_doc |-> current_doc, total |-> total]

\* current_doc.append(d); total += _len + (separator_len if len(current_doc) > 1 else 0)
push_unit(acc, d) ==
    [docs |-> acc.docs,
     current_doc |-> Append(acc.current_doc, d),
     total |-> acc.total + Len(d) + (IF Len(acc.current_doc) + 1 > 1 THEN separator_len ELSE 0)]

\* a buggy overflow branch: the pending chunk is discarded instead of appended to docs
merge_step_drop(acc, d, size, overlap) ==
    IF acc.total + Len(d) + (IF Len(acc.current_doc) > 0 THEN separator_len ELSE 0) > size
       /\ Len(acc.current_doc) > 0
    THEN LET popped == pop_loop(acc.current_doc, acc.total, Len(d), size, overlap)
         IN  push_unit([docs |-> acc.docs,
                        current_doc |-> popped.current_doc,
                        total |-> popped.total], d)
    ELSE push_unit(acc, d)

\* one iteration of the for loop of _merge_splits
merge_step(acc, d, size, overlap) ==
    IF acc.total + Len(d) + (IF Len(acc.current_doc) > 0 THEN separator_len ELSE 0) > size
       /\ Len(acc.current_doc) > 0
    THEN LET doc == join_docs(acc.current_doc)
             docs1 == IF doc # <<>> THEN Append(acc.docs, doc) ELSE acc.docs
             popped == pop_loop(acc.current_doc, acc.total, Len(d), size, overlap)
         IN  push_unit([docs |-> docs1,
                        current_doc |-> popped.current_doc,
                        total |-> popped.total], d)
    ELSE push_unit(acc, d)

RECURSIVE merge_loop(_, _, _, _)
merge_loop(acc, splits, size, overlap) ==
    IF splits = <<>> THEN acc
    ELSE merge_loop(merge_step(acc, Head(splits), size, overlap), Tail(splits), size, overlap)

\* _merge_splits: the loop, then the last pending chunk
merge_splits(splits, size, overlap) ==
    LET acc == merge_loop([docs |-> <<>>, current_doc |-> <<>>, total |-> 0],
                          splits, size, overlap)
        doc == join_docs(acc.current_doc)
    IN  IF doc # <<>> THEN Append(acc.docs, doc) ELSE acc.docs

split_text(t, size, overlap) == merge_splits(split_text_with_regex(t), size, overlap)

get_chunk_text(t) == split_text(t, chunk_size, chunk_overlap)

----------------------------------------------------------------------------
(* Documents, index and conversation chain                                 *)

\* a PDF is a sequence of pages, a page is the text extract_text() returns
PdfA == << <<"a", NL, "b">> >>
PdfB == << <<"b">>, <<"a", "a">> >>
Uploads == { <<PdfA>>, <<PdfB>>, <<PdfA, PdfB>> }

\* the file audio_app.get_chain reads on every run
ResumePdf == << <<"b", "a">> >>

\* what CSVLoader(file_path=".../lakmeindia-products.csv").load() returns
CsvData == << <<"c", "s", "v">> >>

RECURSIVE concat(_)
concat(seqs) == IF seqs = <<>> THEN <<>> ELSE Head(seqs) \o concat(Tail(seqs))

\* text += page.extract_text() over every page of every file
get_pdf_text(files) == concat([i \in 1..Len(files) |-> concat(files[i])])

\* FAISS.from_documents / FAISS.from_texts: one entry per element, in order
get_vector_store(data) == [i \in 1..Len(data) |-> [page_content |-> data[i]]]

\* a new ConversationBufferMemory and a chain over the store; id tells chain objects apart
get_conversation_chain(vector_store, id) ==
    [id |-> id, index |-> vector_store, memory |-> <<>>]

HumanMessage(c) == [type |-> "human", content |-> c]
AIMessage(c) == [type |-> "ai", content |-> c]

\* the chat model's reply to a question
Answer(q) == IF q = "q1" THEN "a1" ELSE "a2"

\* whisper-1 transcription of a recording
Transcribe(r) == IF r = "r1" THEN "q1" ELSE "q2"

\* a buggy save_context: the reply is recorded before the question
save_context_swapped(memory, q, a) == memory \o <<AIMessage(a), HumanMessage(q)>>

\* ConversationBufferMemory.save_context: chat_memory.add_user_message, add_ai_message
save_context(memory, q, a) == memory \o <<HumanMessage(q), AIMessage(a)>>

\* Chain.prep_inputs: the memory's variables are laid over the caller's inputs,
\* so a chat_history the caller passes is replaced by the memory's list
prep_inputs(chain, inputs) ==
    [question |-> inputs.question, chat_history |-> chain.memory]

\* a buggy chain call: the user turn is committed before the chat model is called
chain_call_eager(chain, inputs, llm_ok) ==
    LET q == prep_inputs(chain, inputs).question
    IN  IF llm_ok
        THEN LET mem == save_context(chain.memory, q, Answer(q))
             IN  [raised |-> FALSE,
                  chain |-> [chain EXCEPT !.memory = mem],
                  chat_history |-> mem]
        ELSE [raised |-> TRUE,
              chain |-> [chain EXCEPT !.memory = chain.memory \o <<HumanMessage(q)>>],
              chat_history |-> <<>>]

\* st.session_state.conversation({...}): prep_inputs, the chat-model call, then
\* prep_outputs (save_context).  The returned chat_history is the memory's own
\* list object, so it shows the two messages save_context has just added.
\* When the chat model raises, the exception leaves before save_context.
chain_call(chain, inputs, llm_ok) ==
    LET q == prep_inputs(chain, inputs).question
    IN  IF llm_ok
        THEN LET mem == save_context(chain.memory, q, Answer(q))
             IN  [raised |-> FALSE,
                  chain |-> [chain EXCEPT !.memory = mem],
                  chat_history |-> mem]
        ELSE [raised |-> TRUE, chain |-> chain, chat_history |-> <<>>]

\* handle_user_input(question): the result of the call, st.session_state after it,
\* and the error the run stops with, if any
handle_user_input(conv, hist, q, llm_ok) ==
    IF conv = None
    THEN \* None({...}) : 'NoneType' object is not callable
         [outcome |-> "TypeError", conversation |-> conv, chat_history |-> hist]
    ELSE LET r == chain_call(conv[1], [question |-> q, chat_history |-> hist], llm_ok)
         IN  IF r.raised
             THEN [outcome |-> "UpstreamError", conversation |-> Some(r.chain), chat_history |-> hist]
             ELSE [outcome |-> "answer", conversation |-> Some(r.chain),
                   chat_history |-> Some(r.chat_history)]

----------------------------------------------------------------------------
(* The file audio.wav in the server's working directory                    *)

Inodes == 1..(Cardinality(Sessions) + 1)

\* contents are kept only for inodes that have a name or an open handle
Release(data, path, handles) ==
    [i \in Inodes |-> IF i = path \/ \E s \in Sessions : handles[s] = i THEN data[i] ELSE ""]

FreeInode ==
    CHOOSE i \in Inodes :
        /\ fs_data[i] = ""
        /\ \A j \in Inodes : fs_data[j] = "" => i <= j

----------------------------------------------------------------------------
(* Initial state: a fresh server, no session has run the script yet.       *)
(* conversation and chat_history are absent from st.session_state; the     *)
(* first lines of either script set them to None before anything reads     *)
(* them.                                                                   *)

SessionInit ==
    /\ pc = [s \in Sessions |-> "idle"]
    /\ question = [s \in Sessions |-> ""]
    /\ audio = [s \in Sessions |-> ""]
    /\ pdf_files = [s \in Sessions |-> <<>>]
    /\ conversation = [s \in Sessions |-> None]
    /\ chat_history = [s \in Sessions |-> None]
    /\ audio_file = [s \in Sessions |-> 0]
    /\ text = [s \in Sessions |-> ""]
    /\ outcome = [s \in Sessions |-> "none"]
    /\ fs_path = 0
    /\ fs_data = [i \in Inodes |-> ""]
    /\ builds = [s \in Sessions |-> 0]
    /\ loads = [s \in Sessions |-> 0]
    /\ hist_epoch = [s \in Sessions |-> 0]
    /\ reruns = 0

ChunkIdle ==
    /\ in_text = <<>>
    /\ in_size = chunk_size
    /\ in_overlap = chunk_overlap
    /\ chunks = <<>>
    /\ chunked = FALSE

Init ==
    /\ app \in {"text", "audio"}
    /\ SessionInit
    /\ ChunkIdle

----------------------------------------------------------------------------
(* WorkingCode_2909/app.py                                                 *)

\* a run with an empty text box: main() up to the sidebar
AppRunNoQuestion(s) ==
    /\ app = "text" /\ pc[s] = "idle" /\ reruns < MaxReruns
    /\ reruns' = reruns + 1
    /\ question' = [question EXCEPT ![s] = ""]
    /\ outcome' = [outcome EXCEPT ![s] = "none"]
    /\ pc' = [pc EXCEPT ![s] = "sidebar"]
    /\ UNCHANGED <<app, audio, pdf_files, conversation, chat_history, audio_file, text,
                   fs_path, fs_data, builds, loads, hist_epoch, chunkVars>>

\* a run with a question in the text box: main() up to the sidebar; an exception
\* in handle_user_input ends the run before the sidebar is reached
AppRunAsk(s, q, llm_ok) ==
    /\ app = "text" /\ pc[s] = "idle" /\ reruns < MaxReruns
    /\ reruns' = reruns + 1
    /\ question' = [question EXCEPT ![s] = q]
    /\ LET r == handle_user_input(conversation[s], chat_history[s], q, llm_ok)
       IN  /\ conversation' = [conversation EXCEPT ![s] = r.conversation]
           /\ chat_history' = [chat_history EXCEPT ![s] = r.chat_history]
           /\ outcome' = [outcome EXCEPT ![s] = r.outcome]
           /\ hist_epoch' = [hist_epoch EXCEPT ![s] = IF r.outcome = "answer" THEN loads[s] ELSE @]
           /\ pc' = [pc EXCEPT ![s] = IF r.outcome = "answer" THEN "sidebar" ELSE "idle"]
    /\ UNCHANGED <<app, audio, pdf_files, audio_file, text, fs_path, fs_data,
                   builds, loads, chunkVars>>

\* the sidebar with the OK button pressed
AppSidebarLoad(s, files) ==
    /\ app = "text" /\ pc[s] = "sidebar"
    /\ pdf_files' = [pdf_files EXCEPT ![s] = files]
    /\ LET raw_text == get_pdf_text(files)
           text_chunks == get_chunk_text(raw_text)
           data == CsvData
           vector_store == get_vector_store(data)
       IN  conversation' = [conversation EXCEPT ![s] =
                               Some(get_conversation_chain(vector_store, builds[s] + 1))]
    /\ builds' = [builds EXCEPT ![s] = @ + 1]
    /\ loads' = [loads EXCEPT ![s] = @ + 1]
    /\ outcome' = [outcome EXCEPT ![s] = "DONE"]
    /\ pc' = [pc EXCEPT ![s] = "idle"]
    /\ UNCHANGED <<app, question, audio, chat_history, audio_file, text, fs_path, fs_data,
                   hist_epoch, reruns, chunkVars>>

\* the sidebar with the OK button not pressed
AppSidebarIdle(s) ==
    /\ app = "text" /\ pc[s] = "sidebar"
    /\ pc' = [pc EXCEPT ![s] = "idle"]
    /\ UNCHANGED <<app, question, audio, pdf_files, conversation, chat_history, audio_file,
                   text, outcome, fs_path, fs_data, builds, loads, hist_epoch, reruns,
                   chunkVars>>

----------------------------------------------------------------------------
(* audio_app.py                                                            *)

\* start of a run: get_chain(), with the widget values the run will see
AudioGetChain(s, rec, q) ==
    /\ app = "audio" /\ pc[s] = "idle" /\ reruns < MaxReruns
    /\ reruns' = reruns + 1
    /\ audio' = [audio EXCEPT ![s] = rec]
    /\ question' = [question EXCEPT ![s] = q]
    /\ LET pdfs == <<ResumePdf>>
           raw_text == get_pdf_text(pdfs)
           text_chunks == get_chunk_text(raw_text)
           vector_store == get_vector_store(text_chunks)
       IN  conversation' = [conversation EXCEPT ![s] =
                               Some(get_conversation_chain(vector_store, builds[s] + 1))]
    /\ builds' = [builds EXCEPT ![s] = @ + 1]
    /\ loads' = [loads EXCEPT ![s] = IF @ = 0 THEN 1 ELSE @]
    /\ outcome' = [outcome EXCEPT ![s] = "none"]
    /\ text' = [text EXCEPT ![s] = ""]
    /\ pc' = [pc EXCEPT ![s] = "main"]
    /\ UNCHANGED <<app, pdf_files, chat_history, audio_file, fs_path, fs_data,
                   hist_epoch, chunkVars>>

\* audio.export("audio.wav", format="wav"): create the file, or truncate and rewrite it
AudioExport(s) ==
    /\ app = "audio" /\ pc[s] = "main" /\ audio[s] # ""
    /\ IF fs_path # 0
       THEN /\ fs_data' = [fs_data EXCEPT ![fs_path] = audio[s]]
            /\ UNCHANGED fs_path
       ELSE /\ fs_path' = FreeInode
            /\ fs_data' = [fs_data EXCEPT ![FreeInode] = audio[s]]
    /\ pc' = [pc EXCEPT ![s] = "open"]
    /\ UNCHANGED <<app, question, audio, pdf_files, conversation, chat_history, audio_file,
                   text, outcome, builds, loads, hist_epoch, reruns, chunkVars>>

\* audio_file = open("audio.wav", "rb")
AudioOpen(s) ==
    /\ app = "audio" /\ pc[s] = "open"
    /\ IF fs_path # 0
       THEN /\ audio_file' = [audio_file EXCEPT ![s] = fs_path]
            /\ pc' = [pc EXCEPT ![s] = "rm"]
            /\ UNCHANGED outcome
       ELSE /\ outcome' = [outcome EXCEPT ![s] = "FileNotFoundError"]
            /\ pc' = [pc EXCEPT ![s] = "idle"]
            /\ UNCHANGED audio_file
    /\ UNCHANGED <<app, question, audio, pdf_files, conversation, chat_history, text,
                   fs_path, fs_data, builds, loads, hist_epoch, reruns, chunkVars>>

\* os.system("rm -f audio.wav")
AudioRm(s) ==
    /\ app = "audio" /\ pc[s] = "rm"
    /\ fs_path' = 0
    /\ fs_data' = Release(fs_data, 0, audio_file)
    /\ pc' = [pc EXCEPT ![s] = "transcribe"]
    /\ UNCHANGED <<app, question, audio, pdf_files, conversation, chat_history, audio_file,
                   text, outcome, builds, loads, hist_epoch, reruns, chunkVars>>

\* transcript = openai.Audio.transcribe("whisper-1", audio_file); text = transcript["text"]
AudioTranscribe(s) ==
    /\ app = "audio" /\ pc[s] = "transcribe"
    /\ text' = [text EXCEPT ![s] = Transcribe(fs_data[audio_file[s]])]
    /\ pc' = [pc EXCEPT ![s] = "ask"]
    /\ UNCHANGED <<app, question, audio, pdf_files, conversation, chat_history, audio_file,
                   outcome, fs_path, fs_data, builds, loads, hist_epoch, reruns, chunkVars>>

\* handle_user_input(text) on the voice path; the run ends and the handle goes away
AudioVoiceAsk(s, llm_ok) ==
    /\ app = "audio" /\ pc[s] = "ask"
    /\ LET r == handle_user_input(conversation[s], chat_history[s], text[s], llm_ok)
       IN  /\ conversation' = [conversation EXCEPT ![s] = r.conversation]
           /\ chat_history' = [chat_history EXCEPT ![s] = r.chat_history]
           /\ outcome' = [outcome EXCEPT ![s] = r.outcome]
           /\ hist_epoch' = [hist_epoch EXCEPT ![s] = IF r.outcome = "answer" THEN loads[s] ELSE @]
    /\ audio_file' = [audio_file EXCEPT ![s] = 0]
    /\ fs_data' = Release(fs_data, fs_path, audio_file')
    /\ pc' = [pc EXCEPT ![s] = "idle"]
    /\ UNCHANGED <<app, question, audio, pdf_files, text, fs_path, builds, loads, reruns,
                   chunkVars>>

\* elif question: text = question; handle_user_input(text)
AudioTextAsk(s, llm_ok) ==
    /\ app = "audio" /\ pc[s] = "main" /\ audio[s] = "" /\ question[s] # ""
    /\ text' = [text EXCEPT ![s] = question[s]]
    /\ LET r == handle_user_input(conversation[s], chat_history[s], question[s], llm_ok)
       IN  /\ conversation' = [conversation EXCEPT ![s] = r.conversation]
           /\ chat_history' = [chat_history EXCEPT ![s] = r.chat_history]
           /\ outcome' = [outcome EXCEPT ![s] = r.outcome]
           /\ hist_epoch' = [hist_epoch EXCEPT ![s] = IF r.outcome = "answer" THEN loads[s] ELSE @]
    /\ pc' = [pc EXCEPT ![s] = "idle"]
    /\ UNCHANGED <<app, question, audio, pdf_files, audio_file, fs_path, fs_data, builds,
                   loads, reruns, chunkVars>>

\* neither a recording nor a question: main() does nothing more
AudioNoInput(s) ==
    /\ app = "audio" /\ pc[s] = "main" /\ audio[s] = "" /\ question[s] = ""
    /\ pc' = [pc EXCEPT ![s] = "idle"]
    /\ UNCHANGED <<app, question, audio, pdf_files, conversation, chat_history, audio_file,
                   text, outcome, fs_path, fs_data, builds, loads, hist_epoch, reruns,
                   chunkVars>>

----------------------------------------------------------------------------

Next ==
    \/ \E s \in Sessions : AppRunNoQuestion(s)
    \/ \E s \in Sessions, q \in Questions, llm_ok \in BOOLEAN : AppRunAsk(s, q, llm_ok)
    \/ \E s \in Sessions, files \in Uploads : AppSidebarLoad(s, files)
    \/ \E s \in Sessions : AppSidebarIdle(s)
    \/ \E s \in Sessions, rec \in Recordings \cup {""}, q \in Questions \cup {""} :
          AudioGetChain(s, rec, q)
    \/ \E s \in Sessions : AudioExport(s)
    \/ \E s \in Sessions : AudioOpen(s)
    \/ \E s \in Sessions : AudioRm(s)
    \/ \E s \in Sessions : AudioTranscribe(s)
    \/ \E s \in Sessions, llm_ok \in BOOLEAN : AudioVoiceAsk(s, llm_ok)
    \/ \E s \in Sessions, llm_ok \in BOOLEAN : AudioTextAsk(s, llm_ok)
    \/ \E s \in Sessions : AudioNoInput(s)

Spec == Init /\ [][Next]_vars

----------------------------------------------------------------------------
(* The chunker applied to bounded texts and configurations                 *)

Texts == UNION { [1..n -> Chars] : n \in 0..MaxLen }

ChunkInit ==
    /\ app = "text"
    /\ SessionInit
    /\ in_text \in Texts
    /\ in_size \in 1..MaxChunkSize
    /\ in_overlap \in 0..(in_size - 1)
    /\ chunks = <<>>
    /\ chunked = FALSE

ApplySplit ==
    /\ ~chunked
    /\ chunks' = split_text(in_text, in_size, in_overlap)
    /\ chunked' = TRUE
    /\ UNCHANGED <<sessionVars, in_text, in_size, in_overlap>>

ChunkNext == ApplySplit

SpecChunk == ChunkInit /\ [][ChunkNext]_vars

----------------------------------------------------------------------------
(* Properties                                                              *)

\* the turns of a chat_history value, none for None
Turns(h) == IF h = None THEN <<>> ELSE h[1]

IsPrefix(a, b) == Len(a) <= Len(b) /\ SubSeq(b, 1, Len(a)) = a

\* a step in which session s runs handle_user_input and the chat model answers (or fails)
AskStep(s, llm_ok) ==
    \/ \E q \in Questions : AppRunAsk(s, q, llm_ok)
    \/ AudioTextAsk(s, llm_ok)
    \/ AudioVoiceAsk(s, llm_ok)

\* the question handle_user_input was given in the step just taken
Asked(s) == IF app = "text" THEN question'[s] ELSE text'[s]

\* C1: in a session where no document processing has completed, an ask fails with
\* NotReadyError and with nothing else, and leaves index and history absent.
C1_NotReadyError ==
    \A s \in Sessions :
        (loads[s] = 0 /\ outcome[s] # "none") =>
            /\ outcome[s] = "NotReadyError"
            /\ conversation[s] = None
            /\ chat_history[s] = None

\* C2: every ask after a load whose chat-model call succeeds makes the session's
\* turn history grow by exactly the user turn and then the assistant turn.
C2_HistoryGrowsByTwo ==
    [][\A s \in Sessions :
          (AskStep(s, TRUE) /\ conversation[s] # None) =>
              Turns(chat_history'[s]) =
                  Turns(chat_history[s]) \o <<HumanMessage(Asked(s)), AIMessage(Answer(Asked(s)))>>]_vars

C4_LoadResetsHistory ==
    \A s \in Sessions :
        outcome[s] = "DONE" =>
            /\ conversation[s] # None
            /\ conversation[s][1].memory = <<>>
            /\ Turns(chat_history[s]) = <<>>

\* C5: with no load in between, the history after an ask extends the history before it.
C5_AppendOnly ==
    [][\A s \in Sessions :
          (hist_epoch[s] = loads'[s]) =>
              IsPrefix(Turns(chat_history[s]), Turns(chat_history'[s]))]_vars

\* C6: the number of index builds of a session equals its number of
\* document-processing actions, however many questions are asked.
C6_OneBuildPerLoad ==
    \A s \in Sessions : builds[s] = loads[s]

\* C7: sessions do not interfere: a voice question is the transcript of the session's
\* own recording, and no session fails on a file another session removed.
C7_SessionsIndependent ==
    \A s \in Sessions :
        /\ pc[s] = "ask" => text[s] = Transcribe(audio[s])
        /\ outcome[s] # "FileNotFoundError"

\* C8: right after a load, the index entries are exactly the chunks of the text of
\* the supplied documents.
C8_IndexHoldsUploadedChunks ==
    \A s \in Sessions :
        (outcome[s] = "DONE" /\ conversation[s] # None) =>
            conversation[s][1].index =
                get_vector_store(get_chunk_text(get_pdf_text(pdf_files[s])))

\* t is a suffix of the first chunk, followed by a suffix of the second, and so on:
\* the chunks' non-overlapping portions, in order, with no gap
RECURSIVE from_suffixes(_, _)
from_suffixes(t, cs) ==
    IF cs = <<>> THEN t = <<>>
    ELSE \E k \in 0..Len(cs[1]) :
            /\ k <= Len(t)
            /\ SubSeq(t, 1, k) = SubSeq(cs[1], Len(cs[1]) - k + 1, Len(cs[1]))
            /\ from_suffixes(SubSeq(t, k + 1, Len(t)), Tail(cs))

non_whitespace(s) == SelectSeq(s, LAMBDA c : ~IsWhitespace(c))

C10_HistoryAlternates ==
    \A s \in Sessions :
        LET h == Turns(chat_history[s])
        IN  /\ Len(h) % 2 = 0
            /\ \A i \in 1..Len(h) :
                  IF i % 2 = 1
                  THEN h[i].type = "human"
                  ELSE h[i].type = "ai" /\ h[i].content = Answer(h[i - 1].content)

\* C10 witness: a history of at least two questions and their answers has just
\* been rendered
C10_Witness ==
    \E s \in Sessions :
        /\ outcome[s] = "answer"
        /\ Len(Turns(chat_history[s])) >= 4

====
